---- MODULE Spec2Model ----
(***************************************************************************)
(* Model of the invoicing backend: the GST calculator                      *)
(* (src/utils/gstCalculator.js), the Invoice schema (src/unnamed/part_000) *)
(* and the invoice routes (src/routes/invoices.js).                        *)
(*                                                                         *)
(* Money.  JavaScript numbers are modelled as exact fixed-point integers   *)
(* counted in units of 1/UnitsPerCent of a cent, fine enough that          *)
(* x * rate / 100 and x / 2 are exact for prices given in whole cents.     *)
(* toFixed(2) rounds to the nearest cent; a value exactly half-way between *)
(* two cents is rounded up or down depending on which side of the decimal  *)
(* value its binary double lies, which the model leaves open (tieUp).      *)
(*                                                                         *)
(* Strings are sequences of one-character strings, so that toLowerCase,    *)
(* String(n), padStart and the template literal are computed, not assumed. *)
(***************************************************************************)
EXTENDS Integers, Sequences, FiniteSets

VARIABLES
    tieUp,      \* direction toFixed takes on an exact half-cent
    call,       \* SpecTax: the call of a gstCalculator function being made
    ret,        \* SpecTax: what that call returned
    invoices,   \* the Invoice collection
    pc,         \* per client: where its POST / handler stands
    req,        \* per client: the request it is handling
    cnt,        \* per client: the invoiceCount its handler read
    resp,       \* per client: the HTTP response sent
    cause,      \* per client: why the handler answered as it did (history)
    issued,     \* every invoice persisted so far, in order (history)
    stock,      \* the stock field of each Product document
    sold,       \* per product: quantity the finalizations set out to deduct
                \* (history)
    patch,      \* per client: the status update its PATCH handler is making
    deducted,   \* per invoice id: how many times the deduction loop ran
                \* through the lines of the invoice (history)
    adjust      \* per client: the stock update its PATCH handler is making
                \* or has made

vars == <<tieUp, call, ret, invoices, pc, req, cnt, resp, cause, issued,
          stock, sold, patch, deducted, adjust>>

\* What the invoice-creation and calculator steps leave alone
lifeVars == <<stock, sold, patch, deducted, adjust>>

(***************************************************************************)
(* Bounds                                                                  *)
(***************************************************************************)
MaxItems == 2
MaxSmallCount == 11
NumClients == 3
NumUpdaters == 2
MaxStock == 6

(***************************************************************************)
(* Strings                                                                 *)
(***************************************************************************)
Upper == <<"A","B","C","D","E","F","G","H","I","J","K","L","M",
           "N","O","P","Q","R","S","T","U","V","W","X","Y","Z">>
Lower == <<"a","b","c","d","e","f","g","h","i","j","k","l","m",
           "n","o","p","q","r","s","t","u","v","w","x","y","z">>
DigitChars == <<"0","1","2","3","4","5","6","7","8","9">>

LowerChar(c) ==
    IF \E i \in 1..Len(Upper) : Upper[i] = c
    THEN Lower[CHOOSE i \in 1..Len(Upper) : Upper[i] = c]
    ELSE c

\* String.prototype.toLowerCase
toLowerCase(s) == [i \in 1..Len(s) |-> LowerChar(s[i])]

\* A JavaScript value that is a string or undefined.
Undefined == [defined |-> FALSE, chars |-> <<>>]
Str(s) == [defined |-> TRUE, chars |-> s]

\* Truthiness of a string-or-undefined: undefined and "" are falsy.
Truthy(v) == v.defined /\ Len(v.chars) > 0

RECURSIVE StringOf(_)
\* String(n) for a non-negative integer
StringOf(n) ==
    IF n < 10 THEN <<DigitChars[n + 1]>>
    ELSE StringOf(n \div 10) \o <<DigitChars[(n % 10) + 1]>>

RECURSIVE padStart(_, _, _)
\* String.prototype.padStart with a one-character filler
padStart(s, width, c) ==
    IF Len(s) >= width THEN s ELSE padStart(<<c>> \o s, width, c)

\* Reading a string of decimal digits as a number
IsDigit(c) == \E d \in 1..Len(DigitChars) : DigitChars[d] = c
DigitValue(c) == (CHOOSE d \in 1..Len(DigitChars) : DigitChars[d] = c) - 1

RECURSIVE ParseDecimal(_)
ParseDecimal(s) ==
    IF s = <<>> THEN 0
    ELSE 10 * ParseDecimal(SubSeq(s, 1, Len(s) - 1)) + DigitValue(s[Len(s)])

(***************************************************************************)
(* Money                                                                   *)
(***************************************************************************)
\* Units per cent: a line's tax is divided by 100 and the total halved.
UnitsPerCent == 100 * 2

Cents(c) == c * UnitsPerCent

Abs(x) == IF x < 0 THEN -x ELSE x

\* parseFloat(x.toFixed(2)): the nearest whole cent, in units.
toFixed2(x) ==
    LET mag == Abs(x)
        q   == mag \div UnitsPerCent
        r   == mag % UnitsPerCent
        n   == IF 2 * r > UnitsPerCent \/ (2 * r = UnitsPerCent /\ tieUp)
               THEN q + 1 ELSE q
    IN  (IF x < 0 THEN -1 ELSE 1) * n * UnitsPerCent

(***************************************************************************)
(* gstCalculator.js                                                        *)
(***************************************************************************)
\* A missing gstRate.
NoRate == -1000

\* Mutant: a missing rate taken as the standard rate.
RateOrStandard(rate) == IF rate = NoRate THEN 18 ELSE rate

\* item.gstRate || 0
RateOrZero(rate) == IF rate = NoRate THEN 0 ELSE rate

calculateGST(itemTotal, gstRate) == (itemTotal * gstRate) \div 100

calculateCGSTSGST(totalGST) ==
    LET half == totalGST \div 2
    IN  [cgst |-> half, sgst |-> half]

\* One step of items.map: the item with its itemTotal and itemGST.
ItemWithTotals(item) ==
    LET itemTotal == item.quantity * item.unitPrice
        itemGST   == calculateGST(itemTotal, RateOrZero(item.gstRate))
    IN  [quantity |-> item.quantity, unitPrice |-> item.unitPrice,
         gstRate |-> item.gstRate, productId |-> item.productId,
         itemTotal |-> itemTotal, itemGST |-> itemGST]

RECURSIVE SumField(_, _)
SumField(items, f) ==
    IF items = <<>> THEN 0
    ELSE items[1][f] + SumField(Tail(items), f)

\* Mutant: the jurisdictions compared as written, without toLowerCase.
IsSameStateCaseSensitive(customerState, businessState) ==
    /\ Truthy(customerState)
    /\ Truthy(businessState)
    /\ customerState.chars = businessState.chars

IsSameState(customerState, businessState) ==
    /\ Truthy(customerState)
    /\ Truthy(businessState)
    /\ toLowerCase(customerState.chars) = toLowerCase(businessState.chars)

\* Mutant: IGST charged on every invoice, on top of the domestic pair.
TaxSplitAlwaysIGST(totalGST, isSameState) ==
    IF isSameState
    THEN [cgst |-> calculateCGSTSGST(totalGST).cgst,
          sgst |-> calculateCGSTSGST(totalGST).sgst,
          igst |-> totalGST]
    ELSE [cgst |-> 0, sgst |-> 0, igst |-> totalGST]

\* if (isSameState) { cgst, sgst } else { igst }; the others keep their 0
TaxSplit(totalGST, isSameState) ==
    IF isSameState
    THEN [cgst |-> calculateCGSTSGST(totalGST).cgst,
          sgst |-> calculateCGSTSGST(totalGST).sgst,
          igst |-> 0]
    ELSE [cgst |-> 0, sgst |-> 0, igst |-> totalGST]

calculateInvoiceTotals(items, customerState, businessState) ==
    LET itemsWithTotals == [i \in 1..Len(items) |-> ItemWithTotals(items[i])]
        subtotal    == SumField(itemsWithTotals, "itemTotal")
        totalGST    == SumField(itemsWithTotals, "itemGST")
        isSameState == IsSameState(customerState, businessState)
        split       == TaxSplit(totalGST, isSameState)
        cgst        == split.cgst
        sgst        == split.sgst
        igst        == split.igst
        grandTotal  == subtotal + cgst + sgst + igst
    IN  [kind        |-> "totals",
         items       |-> itemsWithTotals,
         subtotal    |-> toFixed2(subtotal),
         cgst        |-> toFixed2(cgst),
         sgst        |-> toFixed2(sgst),
         igst        |-> toFixed2(igst),
         totalGST    |-> toFixed2(totalGST),
         grandTotal  |-> toFixed2(grandTotal),
         isSameState |-> isSameState]

\* The width padStart pads the sequence number to.
PadWidth == 6

\* Suffix(s, n): the last n elements of s, or all of s when it is shorter
Suffix(s, n) == IF Len(s) <= n THEN s ELSE SubSeq(s, Len(s) - n + 1, Len(s))

\* Mutant: the sequence part cut to its last PadWidth digits (slice(-6)).
generateInvoiceNumberTruncated(userId, invoiceCount) ==
    LET invoiceNum ==
            Suffix(padStart(StringOf(invoiceCount + 1), PadWidth, "0"), PadWidth)
    IN  <<"I","N","V","-">> \o userId \o <<"-">> \o invoiceNum

generateInvoiceNumber(userId, invoiceCount) ==
    LET invoiceNum == padStart(StringOf(invoiceCount + 1), PadWidth, "0")
    IN  <<"I","N","V","-">> \o userId \o <<"-">> \o invoiceNum

(***************************************************************************)
(* Calls of the gstCalculator functions (SpecTax)                          *)
(***************************************************************************)
Goa  == <<"G","o","a">>
GOA  == <<"G","O","A">>
Pune == <<"P","u","n","e">>

\* customer.state / business.state: a String path of the schema, or unset
Jurisdictions == {Undefined, Str(<<>>), Str(Goa), Str(GOA), Str(Pune)}

Item(p, q, price, rate) ==
    [productId |-> p, quantity |-> q, unitPrice |-> price, gstRate |-> rate]

\* Line items inside the LineItem domain: zero quantity, zero and missing
\* rate, and taxes of a whole, an odd and a half number of cents
ValidItems ==
    {Item("p1", 1, Cents(c), r) : c \in {50, 100}, r \in {NoRate, 0, 1, 18}}
    \cup {Item("p1", 0, Cents(100), 18), Item("p1", 3, Cents(50), 1)}

\* Line items outside it: negative quantity, negative price, rate out of range
InvalidItems ==
    {Item("p1", -1, Cents(100), 18), Item("p1", 1, Cents(-100), 18),
     Item("p1", 1, Cents(100), 101)}

ItemLists == UNION {[1..n -> ValidItems \cup InvalidItems] : n \in 0..MaxItems}

RECURSIVE Pow10(_)
Pow10(k) == IF k = 0 THEN 1 ELSE 10 * Pow10(k - 1)

\* Invoice counts: small ones, and those around the end of the padded range
CountSamples ==
    (0..MaxSmallCount) \cup {Pow10(PadWidth) - 3 + k : k \in 0..MaxSmallCount}

B1 == <<"b","1">>
B2 == <<"b","2">>
BusinessIds == {B1, B2}

TotalsCalls ==
    {[fn |-> "calculateInvoiceTotals", items |-> its,
      customerState |-> cs, businessState |-> bs] :
        its \in ItemLists, cs \in Jurisdictions, bs \in Jurisdictions}

NumberCalls ==
    {[fn |-> "generateInvoiceNumber", userId |-> b, invoiceCount |-> n] :
        b \in BusinessIds, n \in CountSamples}

GSTCalls ==
    {[fn |-> "calculateGST", itemTotal |-> Cents(t), gstRate |-> r] :
        t \in {-100, 0, 50, 100}, r \in {-1, 0, 1, 18, 101}}

Pending == [kind |-> "pending"]
NoCall  == [fn |-> "none"]

CallCalculateInvoiceTotals ==
    /\ call.fn = "calculateInvoiceTotals"
    /\ ret = Pending
    /\ ret' = calculateInvoiceTotals(call.items, call.customerState,
                                     call.businessState)
    /\ UNCHANGED <<tieUp, call, invoices, pc, req, cnt, resp, cause, issued,
                 lifeVars>>

CallGenerateInvoiceNumber ==
    /\ call.fn = "generateInvoiceNumber"
    /\ ret = Pending
    /\ ret' = [kind |-> "number",
               value |-> generateInvoiceNumber(call.userId, call.invoiceCount)]
    /\ UNCHANGED <<tieUp, call, invoices, pc, req, cnt, resp, cause, issued,
                 lifeVars>>

CallCalculateGST ==
    /\ call.fn = "calculateGST"
    /\ ret = Pending
    /\ ret' = [kind |-> "gst",
               value |-> calculateGST(call.itemTotal, call.gstRate)]
    /\ UNCHANGED <<tieUp, call, invoices, pc, req, cnt, resp, cause, issued,
                 lifeVars>>

(***************************************************************************)
(* Collections the invoice routes read                                     *)
(***************************************************************************)
Clients == 1..NumClients

\* The clients that send PUT /:id and PATCH /:id/status requests
Updaters == 1..NumUpdaters

\* User.findById(req.user.businessId).state
BusinessState(b) == IF b = B1 THEN Str(Goa) ELSE Str(Pune)

\* The Customer collection: customerId -> document
Customers == [c \in {"c1"} |-> [businessId |-> B1, state |-> Str(GOA)]]

\* The Product collection: productId -> document
Products ==
    [p \in {"p1", "p2"} |->
        IF p = "p1"
        THEN [businessId |-> B1, gstRate |-> 18, price |-> Cents(100),
              purchasePrice |-> Cents(60), stock |-> 5, minStock |-> 2]
        ELSE [businessId |-> B1, gstRate |-> 5, price |-> Cents(50),
              purchasePrice |-> 0, stock |-> 1, minStock |-> 5]]

\* new Date().toISOString().split('T')[0]: dates are day numbers
Today == 3

\* A customerId missing from the request body
NoId == ""

ReqCustomerIds == {NoId, "c1", "c9"}

ReqItemLists ==
    {<<>>,
     <<Item("p1", 1, Cents(100), NoRate)>>,
     <<Item("p1", -1, Cents(100), NoRate)>>}

\* No status update in hand
NoPatch == [id |-> 0, status |-> "", todo |-> <<>>]

\* No stock update in hand
NoAdjust ==
    [productId |-> "", type |-> "", quantity |-> 0, read |-> 0,
     newQuantity |-> 0]

NoReq == [businessId |-> <<>>, customerId |-> NoId, items |-> <<>>]

\* res.status(status).json({ error | message: text })
Response(status, text) == [status |-> status, text |-> text]
NoResponse == Response(0, "")

(***************************************************************************)
(* Invoice schema (src/unnamed/part_000)                                   *)
(***************************************************************************)
\* invoiceItemSchema: quantity min 0, unitPrice min 0, gstRate min 0 max 100
ItemSchemaValid(item) ==
    /\ item.quantity >= 0
    /\ item.unitPrice >= 0
    /\ item.gstRate # NoRate
    /\ item.gstRate >= 0
    /\ item.gstRate <= 100

\* Document validation run by Invoice.create before the insert
SchemaValid(doc) == \A i \in 1..Len(doc.items) : ItemSchemaValid(doc.items[i])

\* Mutant: no unique index on invoiceNumber.
NoUniqueIndex(invoiceNumber) == TRUE

\* invoiceNumber: unique: true -- the unique index admits the insert
UniqueOk(invoiceNumber) ==
    \A inv \in invoices : inv.invoiceNumber # invoiceNumber

\* Invoice.countDocuments({ businessId })
countDocuments(b) == Cardinality({inv \in invoices : inv.businessId = b})

(***************************************************************************)
(* POST / (create invoice)                                                 *)
(***************************************************************************)
\* items.map(... Product.findById ...): the rate comes from the product
ItemWithDetails(item) ==
    [item EXCEPT !.gstRate =
        IF item.productId \in DOMAIN Products
        THEN Products[item.productId].gstRate
        ELSE RateOrZero(item.gstRate)]

\* Request items for the product lookup: a product that no longer exists,
\* with and without a rate of its own, and an existing product
LookupItems ==
    {Item("p9", 1, Cents(100), NoRate), Item("p9", 1, Cents(100), 18),
     Item("p1", 1, Cents(100), NoRate)}

CreateTotalsCalls ==
    {[fn |-> "createTotals", items |-> its] :
        its \in UNION {[1..n -> LookupItems] : n \in 1..MaxItems}}

\* Lines 29-45 of POST /: every item gets the details of its product, then
\* the totals are calculated for the customer and the business
CallCreateTotals ==
    /\ call.fn = "createTotals"
    /\ ret = Pending
    /\ ret' = calculateInvoiceTotals(
                  [i \in 1..Len(call.items) |->
                      ItemWithDetails(call.items[i])],
                  Customers["c1"].state, BusinessState(B1))
    /\ UNCHANGED <<tieUp, call, invoices, pc, req, cnt, resp, cause, issued,
                   lifeVars>>

\* The document Invoice.create receives for a request of business b that
\* read invoiceCount and named date (lines 49-67)
MakeDoc(id, b, customerId, items, invoiceCount, date) ==
    LET totals == calculateInvoiceTotals(
                      [i \in 1..Len(items) |-> ItemWithDetails(items[i])],
                      Customers[customerId].state,
                      BusinessState(b))
    IN  [id            |-> id,
         businessId    |-> b,
         customerId    |-> customerId,
         invoiceNumber |-> generateInvoiceNumber(b, invoiceCount),
         date          |-> date,
         items         |-> totals.items,
         subtotal      |-> totals.subtotal,
         cgst          |-> totals.cgst,
         sgst          |-> totals.sgst,
         igst          |-> totals.igst,
         totalGST      |-> totals.totalGST,
         grandTotal    |-> totals.grandTotal,
         status        |-> "draft"]

\* The document handed to Invoice.create; the request names no date
InvoiceDoc(c) ==
    MakeDoc(c, req[c].businessId, req[c].customerId, req[c].items, cnt[c],
            Today)

Finish(c, response, why) ==
    /\ pc' = [pc EXCEPT ![c] = "done"]
    /\ req' = [req EXCEPT ![c] = NoReq]
    /\ resp' = [resp EXCEPT ![c] = response]
    /\ cause' = [cause EXCEPT ![c] = why]

\* Lines 14-47: the request is checked, business and customer are fetched,
\* and the invoice count is read.  Clients are numbered in the order their
\* requests arrive.
CreateStart(c, b, customerId, items) ==
    /\ pc[c] = "idle"
    /\ \A d \in Clients : d < c => pc[d] # "idle"
    /\ \/ /\ customerId = NoId \/ Len(items) = 0
          /\ Finish(c, Response(400, "Customer ID and items required"),
                    "missing")
          /\ UNCHANGED cnt
       \/ /\ ~(customerId = NoId \/ Len(items) = 0)
          /\ customerId \notin DOMAIN Customers
          /\ Finish(c, Response(404, "Business or customer not found"),
                    "notfound")
          /\ UNCHANGED cnt
       \/ /\ ~(customerId = NoId \/ Len(items) = 0)
          /\ customerId \in DOMAIN Customers
          /\ pc' = [pc EXCEPT ![c] = "counted"]
          /\ req' = [req EXCEPT ![c] = [businessId |-> b,
                                        customerId |-> customerId,
                                        items |-> items]]
          /\ cnt' = [cnt EXCEPT ![c] = countDocuments(b)]
          /\ UNCHANGED <<resp, cause>>
    /\ UNCHANGED <<tieUp, call, ret, invoices, issued, lifeVars>>

\* Lines 48-73: the number is generated and Invoice.create runs; whatever it
\* throws is caught and answered with the same 500.
CreatePersist(c) ==
    /\ pc[c] = "counted"
    /\ LET doc == InvoiceDoc(c)
       IN  \/ /\ ~SchemaValid(doc)
              /\ Finish(c, Response(500, "Failed to create invoice"),
                        "validation")
              /\ UNCHANGED <<invoices, issued>>
           \/ /\ SchemaValid(doc)
              /\ ~UniqueOk(doc.invoiceNumber)
              /\ Finish(c, Response(500, "Failed to create invoice"),
                        "duplicate")
              /\ UNCHANGED <<invoices, issued>>
           \/ /\ SchemaValid(doc)
              /\ UniqueOk(doc.invoiceNumber)
              /\ invoices' = invoices \cup {doc}
              /\ issued' = Append(issued, [businessId |-> doc.businessId,
                                           invoiceNumber |-> doc.invoiceNumber])
              /\ Finish(c, Response(201, "Invoice created"), "created")
    /\ UNCHANGED <<tieUp, call, ret, cnt, lifeVars>>

(***************************************************************************)
(* DELETE /:id                                                             *)
(***************************************************************************)
\* Invoice.findOneAndDelete({ _id: id, businessId }); a miss answers 404 and
\* changes nothing.
DeleteInvoice(b, id) ==
    /\ \E inv \in invoices : inv.id = id /\ inv.businessId = b
    /\ invoices' = {inv \in invoices : ~(inv.id = id /\ inv.businessId = b)}
    /\ UNCHANGED <<tieUp, call, ret, pc, req, cnt, resp, cause, issued,
                 lifeVars>>

(***************************************************************************)
(* PATCH /:id/status                                                       *)
(***************************************************************************)
validStatuses == {"draft", "pending", "paid", "overdue", "cancelled"}

\* Invoice.findOne({ _id: id, businessId })
FindInvoice(b, id) == {inv \in invoices : inv.id = id /\ inv.businessId = b}

\* Mutant: the stock is rewritten from the product document as it was first
\* read instead of being decremented in place.
StockSetFromStaleRead(p, quantity) ==
    IF p \in DOMAIN stock
    THEN [stock EXCEPT ![p] = Products[p].stock - quantity]
    ELSE stock

\* Product.findByIdAndUpdate(productId, { $inc: { stock: -quantity } }): one
\* atomic in-place decrement; an id matching no product updates nothing
IncStock(p, quantity) ==
    IF p \in DOMAIN stock
    THEN [stock EXCEPT ![p] = @ - quantity]
    ELSE stock

\* The quantity of product p over the items of an invoice
RECURSIVE QuantityOf(_, _)
QuantityOf(items, p) ==
    IF items = <<>> THEN 0
    ELSE (IF Head(items).productId = p THEN Head(items).quantity ELSE 0)
         + QuantityOf(Tail(items), p)

\* Invoice.findOneAndUpdate({ _id, businessId }, { status })
SetStatus(inv, status) == [inv EXCEPT !.status = status]

\* Lines 173-187: the status is checked, the invoice is read, and the handler
\* decides whether this update finalizes a draft.
PatchStart(c, b, id, status) ==
    /\ pc[c] = "idle"
    /\ \A d \in Updaters : d < c => pc[d] # "idle"
    /\ \/ /\ status \notin validStatuses
          /\ Finish(c, Response(400, "Invalid status"), "invalid")
          /\ UNCHANGED <<patch, sold>>
       \/ /\ status \in validStatuses
          /\ FindInvoice(b, id) = {}
          /\ Finish(c, Response(404, "Invoice not found"), "notfound")
          /\ UNCHANGED <<patch, sold>>
       \/ /\ status \in validStatuses
          /\ \E inv \in FindInvoice(b, id) :
                LET finalizes == /\ inv.status = "draft"
                                 /\ status \in {"pending", "paid"}
                                 /\ inv.items # <<>>
                IN  /\ patch' = [patch EXCEPT ![c] =
                                   [id |-> id, status |-> status,
                                    todo |-> IF finalizes THEN inv.items
                                             ELSE <<>>]]
                    /\ sold' = [p \in DOMAIN sold |->
                                   sold[p] + IF finalizes
                                             THEN QuantityOf(inv.items, p)
                                             ELSE 0]
                    /\ pc' = [pc EXCEPT ![c] =
                                 IF finalizes THEN "deduct" ELSE "write"]
          /\ req' = [req EXCEPT ![c] = [NoReq EXCEPT !.businessId = b]]
          /\ UNCHANGED <<resp, cause>>
    /\ UNCHANGED <<tieUp, call, ret, invoices, cnt, issued, stock, deducted,
                   adjust>>

\* One more in the count kept for a key, a key not yet counted standing at 0
CountOf(counts, k) == IF k \in DOMAIN counts THEN counts[k] ELSE 0

CountOneMore(counts, k) ==
    [i \in DOMAIN counts \cup {k} |->
        CountOf(counts, i) + (IF i = k THEN 1 ELSE 0)]

\* Lines 189-194: one turn of the loop, one $inc on one product
PatchDeduct(c) ==
    /\ pc[c] = "deduct"
    /\ LET item == Head(patch[c].todo)
       IN  /\ stock' = IncStock(item.productId, item.quantity)
           /\ patch' = [patch EXCEPT ![c].todo = Tail(@)]
           /\ pc' = [pc EXCEPT ![c] =
                        IF Tail(patch[c].todo) = <<>> THEN "write"
                        ELSE "deduct"]
           /\ deducted' = IF Tail(patch[c].todo) = <<>>
                          THEN CountOneMore(deducted, patch[c].id)
                          ELSE deducted
    /\ UNCHANGED <<tieUp, call, ret, invoices, req, cnt, resp, cause, issued,
                   sold, adjust>>

\* Lines 197-202: the status is written with no look at the status the
\* invoice has; an invoice deleted meanwhile leaves nothing to write.
PatchWrite(c) ==
    /\ pc[c] = "write"
    /\ invoices' =
          {IF inv.id = patch[c].id /\ inv.businessId = req[c].businessId
           THEN SetStatus(inv, patch[c].status) ELSE inv : inv \in invoices}
    /\ patch' = [patch EXCEPT ![c] = NoPatch]
    /\ Finish(c, Response(200, "Invoice status updated"), "status")
    /\ UNCHANGED <<tieUp, call, ret, cnt, issued, stock, sold, deducted,
                   adjust>>

(***************************************************************************)
(* PATCH /:id/stock                                                        *)
(***************************************************************************)
\* Request values: the three types the handler knows; a quantity that adds
\* and one that takes away
StockTypes == {"add", "subtract", "set"}

StockQuantities == {-2, 1}

\* Math.max(0, n)
Max0(n) == IF n < 0 THEN 0 ELSE n

\* Lines 477-484: the stock the handler is going to write
NewQuantity(current, type, quantity) ==
    IF type = "add" THEN current + quantity
    ELSE IF type = "subtract" THEN Max0(current - quantity)
    ELSE IF type = "set" THEN quantity
    ELSE current

\* Product.findOne({ _id: id, businessId })
FindProduct(b, p) ==
    {q \in DOMAIN Products : q = p /\ Products[q].businessId = b}

\* Lines 469-486: the product is read and the new stock is worked out from
\* the stock that was read.
StockStart(c, b, p, type, quantity) ==
    /\ pc[c] = "idle"
    /\ \A d \in Updaters : d < c => pc[d] # "idle"
    /\ \/ /\ FindProduct(b, p) = {}
          /\ Finish(c, Response(404, "Product not found"), "notfound")
          /\ UNCHANGED adjust
       \/ /\ FindProduct(b, p) # {}
          /\ adjust' = [adjust EXCEPT ![c] =
                           [productId   |-> p,
                            type        |-> type,
                            quantity    |-> quantity,
                            read        |-> stock[p],
                            newQuantity |-> NewQuantity(stock[p], type,
                                                        quantity)]]
          /\ pc' = [pc EXCEPT ![c] = "save"]
          /\ UNCHANGED <<req, resp, cause>>
    /\ UNCHANGED <<tieUp, call, ret, invoices, cnt, issued, stock, sold,
                   patch, deducted>>

\* Lines 487-489: product.save() validates the document (stock: min 0) and
\* writes the stock it was given, unless that is the stock that was read, in
\* which case no path is modified and nothing is written.
StockSave(c) ==
    /\ pc[c] = "save"
    /\ \/ /\ adjust[c].newQuantity < 0
          /\ Finish(c, Response(500, "Failed to update stock"), "validation")
          /\ UNCHANGED stock
       \/ /\ adjust[c].newQuantity >= 0
          /\ stock' = IF adjust[c].newQuantity = adjust[c].read THEN stock
                      ELSE [stock EXCEPT ![adjust[c].productId] =
                               adjust[c].newQuantity]
          /\ Finish(c, Response(200, "Stock updated"), "stock")
    /\ UNCHANGED <<tieUp, call, ret, invoices, cnt, issued, sold, patch,
                   deducted, adjust>>

(***************************************************************************)
(* PUT /:id                                                                *)
(***************************************************************************)
TotalsFields ==
    {"items", "subtotal", "cgst", "sgst", "igst", "totalGST", "grandTotal"}

\* Request bodies: a status with a date, a status the schema does not know,
\* new items with their customer, new items with a grand total and no
\* customer
PutBodies ==
    {[status |-> "paid", date |-> Today],
     [status |-> "void"],
     [items |-> <<Item("p1", 3, Cents(100), 18)>>, customerId |-> "c1"],
     [items |-> <<[productId |-> "p1", quantity |-> 3,
                   unitPrice |-> Cents(100), gstRate |-> 18,
                   itemTotal |-> Cents(300), itemGST |-> Cents(54)]>>,
      grandTotal |-> Cents(1)]}

\* Lines 129-151: when the body carries items and the customer it names is
\* found, the totals are recalculated and merged into the body.
WithTotals(body) ==
    IF /\ "items" \in DOMAIN body
       /\ "customerId" \in DOMAIN body
       /\ body.customerId \in DOMAIN Customers
    THEN LET totals == calculateInvoiceTotals(body.items,
                           Customers[body.customerId].state,
                           BusinessState(B1))
         IN  [f \in DOMAIN body \cup TotalsFields |->
                 IF f \in TotalsFields THEN totals[f] ELSE body[f]]
    ELSE body

\* runValidators: true -- the validators of the paths the update sets
UpdateValid(body) ==
    /\ "status" \in DOMAIN body => body.status \in validStatuses
    /\ "items" \in DOMAIN body =>
          \A i \in 1..Len(body.items) : ItemSchemaValid(body.items[i])

\* findOneAndUpdate(filter, body): every path of the body is set
ApplyUpdate(inv, body) ==
    [f \in DOMAIN inv |-> IF f \in DOMAIN body THEN body[f] ELSE inv[f]]

\* Lines 123-168: whatever the body holds is written to the invoice, its
\* status included, whatever status the invoice has.
PutInvoice(c, b, id, body) ==
    /\ pc[c] = "idle"
    /\ \A d \in Updaters : d < c => pc[d] # "idle"
    /\ LET update == WithTotals(body)
       IN  \/ /\ ~UpdateValid(update)
              /\ Finish(c, Response(500, "Failed to update invoice"),
                        "validation")
              /\ UNCHANGED invoices
           \/ /\ UpdateValid(update)
              /\ FindInvoice(b, id) = {}
              /\ Finish(c, Response(404, "Invoice not found"), "notfound")
              /\ UNCHANGED invoices
           \/ /\ UpdateValid(update)
              /\ FindInvoice(b, id) # {}
              /\ invoices' =
                    {IF inv \in FindInvoice(b, id)
                     THEN ApplyUpdate(inv, update) ELSE inv : inv \in invoices}
              /\ Finish(c, Response(200, "Invoice updated"), "updated")
    /\ UNCHANGED <<tieUp, call, ret, cnt, issued, lifeVars>>

(***************************************************************************)
(* Report routes (src/unnamed/part_001): dates and the invoice query       *)
(*                                                                         *)
(* The calendar is abstract.  Time is counted in instants from the model's *)
(* epoch; a day has three instants the routes can tell apart (00:00:00,    *)
(* 23:59:59 and a moment within the last second), a month has two days.    *)
(* A date string is written as the decimal digits of its instant; the      *)
(* server runs in UTC.                                                     *)
(***************************************************************************)
InstantsPerDay == 3
DaysPerMonth == 2
MonthsPerYear == 12
InstantsPerMonth == InstantsPerDay * DaysPerMonth

InvalidDate == [valid |-> FALSE, t |-> 0]
DateAt(t) == [valid |-> TRUE, t |-> t]

AllDigits(s) == s # <<>> /\ \A i \in 1..Len(s) : IsDigit(s[i])

\* new Date(string): a string that is no date gives an Invalid Date
NewDate(s) == IF AllDigits(s) THEN DateAt(ParseDecimal(s)) ELSE InvalidDate

\* date.toISOString().split('T')[0]: the calendar day of an instant
DayOf(t) == t \div InstantsPerDay

\* period.split('-'): the text before the first "-" and the text between it
\* and the next one; without a "-" the second part is undefined
Dashes(s) == {i \in 1..Len(s) : s[i] = "-"}

FirstDash(s) == CHOOSE i \in Dashes(s) : \A j \in Dashes(s) : i <= j

SplitPeriod(s) ==
    IF Dashes(s) = {} THEN [year |-> Str(s), month |-> Undefined]
    ELSE LET rest == SubSeq(s, FirstDash(s) + 1, Len(s))
         IN  [year  |-> Str(SubSeq(s, 1, FirstDash(s) - 1)),
              month |-> Str(IF Dashes(rest) = {} THEN rest
                            ELSE SubSeq(rest, 1, FirstDash(rest) - 1))]

\* ToNumber of a string or undefined: "" is 0, digits are their value,
\* anything else is NaN
IsNumeric(v) == v.defined /\ (v.chars = <<>> \/ AllDigits(v.chars))
ToNumber(v) == IF v.chars = <<>> THEN 0 ELSE ParseDecimal(v.chars)

\* new Date(year, month - 1, 1)
PeriodStart(period) ==
    LET parts == SplitPeriod(period)
    IN  IF IsNumeric(parts.year) /\ IsNumeric(parts.month)
        THEN DateAt((ToNumber(parts.year) * MonthsPerYear
                     + ToNumber(parts.month) - 1) * InstantsPerMonth)
        ELSE InvalidDate

\* new Date(year, month, 0, 23, 59, 59): the last day of the month at
\* 23:59:59.000
PeriodEnd(period) ==
    IF PeriodStart(period).valid
    THEN DateAt(PeriodStart(period).t + InstantsPerMonth - 2)
    ELSE InvalidDate

\* Mutant: the query without its status condition.
FindWithCancelled(b, startDate, endDate) ==
    {inv \in invoices : /\ inv.businessId = b
                        /\ inv.date >= startDate
                        /\ inv.date <= endDate}

\* Invoice.find({ businessId, date: { $gte, $lte },
\*                status: { $ne: 'cancelled' } })
FindInRange(b, startDate, endDate) ==
    {inv \in invoices : /\ inv.businessId = b
                        /\ inv.date >= startDate
                        /\ inv.date <= endDate
                        /\ inv.status # "cancelled"}

\* The documents of a query result in the order the collection returns them
RECURSIVE InOrder(_)
InOrder(S) ==
    IF S = {} THEN <<>>
    ELSE LET first == CHOOSE x \in S : \A y \in S : x.id <= y.id
         IN  <<first>> \o InOrder(S \ {first})

\* res.status(status).json({ error: text })
ErrorReply(status, text) ==
    [kind |-> "error", status |-> status, error |-> text]

\* Lines 10-20: the range is required, each bound is turned into a Date and
\* the query runs; a bound that is no date fails the query's cast and the
\* catch block answers with the route's 500.
RangeQuery(b, startDate, endDate, failure) ==
    IF ~Truthy(startDate) \/ ~Truthy(endDate)
    THEN ErrorReply(400, "Start date and end date required")
    ELSE IF ~NewDate(startDate.chars).valid \/ ~NewDate(endDate.chars).valid
    THEN ErrorReply(500, failure)
    ELSE [kind |-> "found",
          invoices |-> InOrder(FindInRange(b, NewDate(startDate.chars).t,
                                           NewDate(endDate.chars).t))]

\* Lines 137-151: the same for a period
PeriodQuery(b, period, failure) ==
    IF ~Truthy(period)
    THEN ErrorReply(400, "Period required (format: YYYY-MM)")
    ELSE IF ~PeriodStart(period.chars).valid
    THEN ErrorReply(500, failure)
    ELSE [kind |-> "found",
          invoices |-> InOrder(FindInRange(b, PeriodStart(period.chars).t,
                                           PeriodEnd(period.chars).t))]

(***************************************************************************)
(* GET /sales, GET /profit-loss, GET /product-sales                        *)
(***************************************************************************)
\* Mutant: a bucket per invoice, days not merged.
AddToDailyUnmerged(rows, inv) ==
    Append(rows, [date  |-> DayOf(inv.date),
                  sales |-> inv.grandTotal,
                  count |-> 1])

\* Lines 31-38: one turn of invoices.forEach over the map of days
AddToDaily(rows, inv) ==
    LET at == {i \in 1..Len(rows) : rows[i].date = DayOf(inv.date)}
    IN  IF at = {}
        THEN Append(rows, [date  |-> DayOf(inv.date),
                           sales |-> inv.grandTotal,
                           count |-> 1])
        ELSE [i \in 1..Len(rows) |->
                 IF i \in at
                 THEN [rows[i] EXCEPT !.sales = @ + inv.grandTotal,
                                      !.count = @ + 1]
                 ELSE rows[i]]

\* Mutant: a zero bucket where no invoice was found.
DailySalesZeroFilled(invs) ==
    IF invs = <<>> THEN <<[date |-> 0, sales |-> 0, count |-> 0]>>
    ELSE [i \in 1..Len(invs) |-> [date  |-> DayOf(invs[i].date),
                                  sales |-> invs[i].grandTotal,
                                  count |-> 1]]

RECURSIVE DailySales(_)
DailySales(invs) ==
    IF invs = <<>> THEN <<>>
    ELSE AddToDaily(DailySales(SubSeq(invs, 1, Len(invs) - 1)),
                    invs[Len(invs)])

\* Lines 8-46
SalesReport(b, startDate, endDate) ==
    LET q == RangeQuery(b, startDate, endDate, "Failed to get sales report")
    IN  IF q.kind = "error" THEN q
        ELSE [kind         |-> "sales",
              status       |-> 200,
              totalSales   |-> SumField(q.invoices, "grandTotal"),
              totalGST     |-> SumField(q.invoices, "totalGST"),
              invoiceCount |-> Len(q.invoices),
              dailySales   |-> DailySales(q.invoices)]

\* Mutant: the purchase price read from the looked-up product without asking
\* whether the lookup found one.
ItemCostReadingNull(item) ==
    IF item.productId \in DOMAIN Products
    THEN [thrown |-> FALSE,
          cost |-> item.quantity * Products[item.productId].purchasePrice]
    ELSE [thrown |-> TRUE, cost |-> 0]

\* Lines 70-73 and 470, 487: Product.findById, then quantity times the
\* purchase price when the product exists and has one, nothing otherwise
ItemCost(item) ==
    [thrown |-> FALSE,
     cost |-> IF item.productId \in DOMAIN Products
              THEN item.quantity * Products[item.productId].purchasePrice
              ELSE 0]

\* Every line item of the invoices of a query result, in order
RECURSIVE AllItems(_)
AllItems(invs) ==
    IF invs = <<>> THEN <<>> ELSE Head(invs).items \o AllItems(Tail(invs))

RECURSIVE SumCosts(_)
SumCosts(items) ==
    IF items = <<>> THEN 0
    ELSE ItemCost(Head(items)).cost + SumCosts(Tail(items))

\* Something in the try block threw: the catch block answers
Threw(items) == \E i \in 1..Len(items) : ItemCost(items[i]).thrown

\* Mutant: the margin cut off after two decimals instead of rounded.
MarginTruncated(profit, revenue) ==
    IF revenue > 0
    THEN (IF profit < 0 THEN -1 ELSE 1) * ((Abs(profit) * 100 * 100) \div revenue)
    ELSE 0

\* revenue > 0 ? parseFloat(((profit / revenue) * 100).toFixed(2)) : 0, in
\* hundredths of a percent
Margin(profit, revenue) ==
    IF revenue > 0
    THEN LET mag == Abs(profit) * 100 * 100
             q   == mag \div revenue
             r   == mag % revenue
             n   == IF 2 * r > revenue \/ (2 * r = revenue /\ tieUp)
                    THEN q + 1 ELSE q
         IN  (IF profit < 0 THEN -1 ELSE 1) * n
    ELSE 0

\* Lines 49-92
ProfitLossReport(b, startDate, endDate) ==
    LET q == RangeQuery(b, startDate, endDate,
                        "Failed to get profit loss report")
    IN  IF q.kind = "error" THEN q
        ELSE IF Threw(AllItems(q.invoices))
        THEN ErrorReply(500, "Failed to get profit loss report")
        ELSE LET revenue == SumField(q.invoices, "grandTotal")
                 costs   == SumCosts(AllItems(q.invoices))
             IN  [kind         |-> "profit-loss",
                  status       |-> 200,
                  revenue      |-> revenue,
                  costs        |-> costs,
                  profit       |-> revenue - costs,
                  profitMargin |-> Margin(revenue - costs, revenue)]

\* Lines 111-123: one turn of invoice.items.forEach over the product map
AddToProductSales(rows, item) ==
    LET at == {i \in 1..Len(rows) : rows[i].productId = item.productId}
    IN  IF at = {}
        THEN Append(rows, [productId  |-> item.productId,
                           quantity   |-> item.quantity,
                           totalSales |-> item.itemTotal])
        ELSE [i \in 1..Len(rows) |->
                 IF i \in at
                 THEN [rows[i] EXCEPT !.quantity = @ + item.quantity,
                                      !.totalSales = @ + item.itemTotal]
                 ELSE rows[i]]

RECURSIVE ProductSales(_)
ProductSales(items) ==
    IF items = <<>> THEN <<>>
    ELSE AddToProductSales(ProductSales(SubSeq(items, 1, Len(items) - 1)),
                           items[Len(items)])

\* Lines 95-132
ProductSalesReport(b, startDate, endDate) ==
    LET q == RangeQuery(b, startDate, endDate,
                        "Failed to get product sales report")
    IN  IF q.kind = "error" THEN q
        ELSE [kind     |-> "product-sales",
              status   |-> 200,
              products |-> ProductSales(AllItems(q.invoices))]

(***************************************************************************)
(* GET /gstr-1, GET /gstr-3b                                               *)
(***************************************************************************)
\* Lines 153-159: the buckets the map starts with
StandardRates == {0, 5, 12, 18, 28}

\* A stored rate is a number of whole percents (gstRate) and, where the item
\* carries one, a further half percent (rateHalf = 1)
RateHalf(item) == IF "rateHalf" \in DOMAIN item THEN item.rateHalf ELSE 0

\* Mutant: the half percent dropped instead of rounded up.
RateKeyTruncated(item) == RateOrZero(item.gstRate)

\* Math.round(item.gstRate || 0): a whole rate is left as it is, a rate with
\* a half percent goes up to the next whole percent
RateKey(item) == RateOrZero(item.gstRate) + RateHalf(item)

\* Lines 161-171: what each turn of the inner forEach adds to its bucket --
\* the line's itemTotal and the tax fields of the whole invoice
RateLinesOf(inv) ==
    [i \in 1..Len(inv.items) |->
        [rate         |-> RateKey(inv.items[i]),
         taxableValue |-> inv.items[i].itemTotal,
         cgst         |-> inv.cgst,
         sgst         |-> inv.sgst,
         igst         |-> inv.igst]]

RECURSIVE RateLines(_)
RateLines(invs) ==
    IF invs = <<>> THEN <<>>
    ELSE RateLinesOf(Head(invs)) \o RateLines(Tail(invs))

RECURSIVE SumAtRate(_, _, _)
SumAtRate(lines, rate, f) ==
    IF lines = <<>> THEN 0
    ELSE (IF Head(lines).rate = rate THEN Head(lines)[f] ELSE 0)
         + SumAtRate(Tail(lines), rate, f)

ByGSTRate(invs) ==
    LET lines == RateLines(invs)
    IN  [rate \in StandardRates \cup {lines[i].rate : i \in 1..Len(lines)} |->
            [taxableValue |-> SumAtRate(lines, rate, "taxableValue"),
             cgst         |-> SumAtRate(lines, rate, "cgst"),
             sgst         |-> SumAtRate(lines, rate, "sgst"),
             igst         |-> SumAtRate(lines, rate, "igst")]]

\* Lines 135-186
GSTR1Report(b, period) ==
    LET q == PeriodQuery(b, period, "Failed to get GSTR-1 report")
    IN  IF q.kind = "error" THEN q
        ELSE [kind      |-> "gstr-1",
              status    |-> 200,
              byGSTRate |-> ByGSTRate(q.invoices)]

\* Lines 189-224
GSTR3BReport(b, period) ==
    LET q == PeriodQuery(b, period, "Failed to get GSTR-3B report")
    IN  IF q.kind = "error" THEN q
        ELSE [kind              |-> "gstr-3b",
              status            |-> 200,
              totalTaxableValue |-> SumField(q.invoices, "subtotal"),
              totalCGST         |-> SumField(q.invoices, "cgst"),
              totalSGST         |-> SumField(q.invoices, "sgst"),
              totalIGST         |-> SumField(q.invoices, "igst")]

(***************************************************************************)
(* GET /items/stock-summary                                                *)
(***************************************************************************)
\* The Product collection sorted by name
ProductsByName == <<"p1", "p2">>

\* Product.find({ businessId }).sort({ name: 1 })
ProductsOf(b) ==
    SelectSeq(ProductsByName, LAMBDA p : Products[p].businessId = b)

\* Lines 411-431: one turn of products.map
StockRow(p) ==
    LET isLowStock == stock[p] <= Products[p].minStock
    IN  [productId     |-> p,
         stock         |-> stock[p],
         minStock      |-> Products[p].minStock,
         stockValue    |-> stock[p] * Products[p].price,
         purchaseValue |-> stock[p] * Products[p].purchasePrice,
         isLowStock    |-> isLowStock,
         stockStatus   |-> IF isLowStock THEN "Low Stock"
                           ELSE IF stock[p] = 0 THEN "Out of Stock"
                           ELSE "In Stock"]

\* Lines 406-448
StockSummaryReport(b) ==
    LET rows == [i \in 1..Len(ProductsOf(b)) |-> StockRow(ProductsOf(b)[i])]
        count(Test(_)) == Cardinality({i \in 1..Len(rows) : Test(rows[i])})
    IN  [kind               |-> "stock-summary",
         status             |-> 200,
         stockSummary       |-> rows,
         totalProducts      |-> Len(rows),
         totalStockValue    |-> SumField(rows, "stockValue"),
         totalPurchaseValue |-> SumField(rows, "purchaseValue"),
         lowStockCount      |-> count(LAMBDA r : r.isLowStock),
         outOfStockCount    |-> count(LAMBDA r : r.stock = 0),
         inStockCount       |-> count(LAMBDA r : r.stock > 0 /\ ~r.isLowStock)]

(***************************************************************************)
(* GET /items/pl-statement                                                 *)
(***************************************************************************)
\* Lines 468-494: one turn of the inner loop over the product map
AddToProductPL(rows, item) ==
    LET at      == {i \in 1..Len(rows) : rows[i].productId = item.productId}
        revenue == item.itemTotal
        cost    == ItemCost(item).cost
    IN  IF at = {}
        THEN Append(rows, [productId         |-> item.productId,
                           totalQuantitySold |-> item.quantity,
                           totalRevenue      |-> revenue,
                           totalCost         |-> cost,
                           totalProfit       |-> revenue - cost,
                           profitMargin      |-> 0])
        ELSE [i \in 1..Len(rows) |->
                 IF i \in at
                 THEN [rows[i] EXCEPT
                          !.totalQuantitySold = @ + item.quantity,
                          !.totalRevenue = @ + revenue,
                          !.totalCost = @ + cost,
                          !.totalProfit = @ + (revenue - cost)]
                 ELSE rows[i]]

RECURSIVE ProductPL(_)
ProductPL(items) ==
    IF items = <<>> THEN <<>>
    ELSE AddToProductPL(ProductPL(SubSeq(items, 1, Len(items) - 1)),
                        items[Len(items)])

\* Lines 498-502: the margin of each row
WithMargins(rows) ==
    [i \in 1..Len(rows) |->
        [rows[i] EXCEPT
            !.profitMargin = Margin(rows[i].totalProfit,
                                    rows[i].totalRevenue)]]

\* Mutant: the rows left in the order the products were first met.
InInsertionOrder(rows) == rows

\* Line 503: .sort((a, b) => b.totalProfit - a.totalProfit), a stable sort
RECURSIVE SortByProfit(_)
SortByProfit(rows) ==
    IF rows = <<>> THEN <<>>
    ELSE LET best == CHOOSE i \in 1..Len(rows) :
                        \A j \in 1..Len(rows) :
                           \/ rows[i].totalProfit > rows[j].totalProfit
                           \/ /\ rows[i].totalProfit = rows[j].totalProfit
                              /\ i <= j
         IN  <<rows[best]>>
             \o SortByProfit([k \in 1..(Len(rows) - 1) |->
                                 IF k < best THEN rows[k] ELSE rows[k + 1]])

\* Lines 451-521
PLStatementReport(b, startDate, endDate) ==
    LET q == RangeQuery(b, startDate, endDate, "Failed to get P&L statement")
    IN  IF q.kind = "error" THEN q
        ELSE IF Threw(AllItems(q.invoices))
        THEN ErrorReply(500, "Failed to get P&L statement")
        ELSE LET plStatement ==
                     SortByProfit(WithMargins(ProductPL(AllItems(q.invoices))))
                 totalRevenue == SumField(plStatement, "totalRevenue")
                 totalProfit  == SumField(plStatement, "totalProfit")
             IN  [kind                |-> "pl-statement",
                  status              |-> 200,
                  plStatement         |-> plStatement,
                  totalRevenue        |-> totalRevenue,
                  totalCost           |-> SumField(plStatement, "totalCost"),
                  totalProfit         |-> totalProfit,
                  overallProfitMargin |-> Margin(totalProfit, totalRevenue)]

(***************************************************************************)
(* Report requests                                                         *)
(***************************************************************************)
\* An invoice as later requests leave it: its status set by
\* PATCH /:id/status
WithStatus(doc, status) == [doc EXCEPT !.status = status]

\* The instants of the first two months
Month1 == 0
Month2 == InstantsPerMonth

\* Invoices the collection may hold: of both businesses, in and out of the
\* first month, cancelled and not, one with a product that no longer exists
InvoicePool ==
    {WithStatus(MakeDoc(1, B1, "c1", <<Item("p1", 1, Cents(100), NoRate)>>,
                        0, Month1), "paid"),
     WithStatus(MakeDoc(2, B1, "c1", <<Item("p1", 2, Cents(100), NoRate),
                                       Item("p9", 1, Cents(50), 5)>>,
                        1, Month1 + InstantsPerMonth - 2), "pending"),
     WithStatus(MakeDoc(3, B1, "c1", <<Item("p2", 1, Cents(50), NoRate)>>,
                        2, Month1 + 1), "cancelled"),
     WithStatus(MakeDoc(4, B2, "c1", <<Item("p1", 1, Cents(100), NoRate)>>,
                        0, Month1 + 1), "paid"),
     MakeDoc(5, B1, "c1", <<Item("p2", 3, Cents(50), NoRate)>>,
             3, Month1 + InstantsPerMonth - 1),
     MakeDoc(6, B1, "c1", <<Item("p1", 1, Cents(50), NoRate)>>,
             4, Month2)}

\* An invoice whose items were replaced by PUT /:id with lines taxed at 2.5%
\* and 18%
HalfRateInvoice ==
    ApplyUpdate(
        WithStatus(MakeDoc(7, B1, "c1", <<Item("p1", 1, Cents(100), NoRate)>>,
                           5, Month1 + 1), "pending"),
        [items |-> <<[productId |-> "p1", quantity |-> 1,
                      unitPrice |-> Cents(50), gstRate |-> 2, rateHalf |-> 1,
                      itemTotal |-> Cents(50), itemGST |-> 250],
                     [productId |-> "p2", quantity |-> 2,
                      unitPrice |-> Cents(50), gstRate |-> 18,
                      itemTotal |-> Cents(100), itemGST |-> Cents(18)]>>])

\* An invoice with two lines of the same product, both taxed at 18%
TwoLineInvoice ==
    WithStatus(MakeDoc(8, B1, "c1", <<Item("p1", 1, Cents(100), NoRate),
                                      Item("p1", 2, Cents(100), NoRate)>>,
                       6, Month1 + 2), "paid")

\* Query values: absent, empty, no date, and the instants of the pool
QueryDates ==
    {Undefined, Str(<<>>), Str(<<"x">>)}
        \cup {Str(StringOf(t)) : t \in {Month1, Month1 + 1,
                                        Month1 + InstantsPerMonth - 2,
                                        Month2}}

QueryPeriods ==
    {Undefined, Str(<<"x">>), Str(<<"0", "-", "1">>), Str(<<"0", "-", "2">>)}

RangeReports == {"sales", "profit-loss", "product-sales", "pl-statement"}
PeriodReports == {"gstr-1", "gstr-3b"}

RangeCalls ==
    [fn : RangeReports, businessId : BusinessIds,
     startDate : QueryDates, endDate : QueryDates]

PeriodCalls == [fn : PeriodReports, businessId : BusinessIds,
                period : QueryPeriods]

StockCalls == [fn : {"stock-summary"}, businessId : BusinessIds]

\* GET /sales
CallSales ==
    /\ call.fn = "sales"
    /\ ret = Pending
    /\ ret' = SalesReport(call.businessId, call.startDate, call.endDate)
    /\ UNCHANGED <<tieUp, call, invoices, pc, req, cnt, resp, cause, issued,
                   lifeVars>>

\* GET /profit-loss
CallProfitLoss ==
    /\ call.fn = "profit-loss"
    /\ ret = Pending
    /\ ret' = ProfitLossReport(call.businessId, call.startDate,
                            call.endDate)
    /\ UNCHANGED <<tieUp, call, invoices, pc, req, cnt, resp, cause, issued,
                   lifeVars>>

\* GET /product-sales
CallProductSales ==
    /\ call.fn = "product-sales"
    /\ ret = Pending
    /\ ret' = ProductSalesReport(call.businessId, call.startDate,
                              call.endDate)
    /\ UNCHANGED <<tieUp, call, invoices, pc, req, cnt, resp, cause, issued,
                   lifeVars>>

\* GET /gstr-1
CallGSTR1 ==
    /\ call.fn = "gstr-1"
    /\ ret = Pending
    /\ ret' = GSTR1Report(call.businessId, call.period)
    /\ UNCHANGED <<tieUp, call, invoices, pc, req, cnt, resp, cause, issued,
                   lifeVars>>

\* GET /gstr-3b
CallGSTR3B ==
    /\ call.fn = "gstr-3b"
    /\ ret = Pending
    /\ ret' = GSTR3BReport(call.businessId, call.period)
    /\ UNCHANGED <<tieUp, call, invoices, pc, req, cnt, resp, cause, issued,
                   lifeVars>>

\* GET /items/stock-summary
CallStockSummary ==
    /\ call.fn = "stock-summary"
    /\ ret = Pending
    /\ ret' = StockSummaryReport(call.businessId)
    /\ UNCHANGED <<tieUp, call, invoices, pc, req, cnt, resp, cause, issued,
                   lifeVars>>

\* GET /items/pl-statement
CallPLStatement ==
    /\ call.fn = "pl-statement"
    /\ ret = Pending
    /\ ret' = PLStatementReport(call.businessId, call.startDate,
                             call.endDate)
    /\ UNCHANGED <<tieUp, call, invoices, pc, req, cnt, resp, cause, issued,
                   lifeVars>>

(***************************************************************************)
(* Specifications                                                          *)
(***************************************************************************)
InitService ==
    /\ invoices = {}
    /\ pc = [c \in Clients |-> "idle"]
    /\ req = [c \in Clients |-> NoReq]
    /\ cnt = [c \in Clients |-> 0]
    /\ resp = [c \in Clients |-> NoResponse]
    /\ cause = [c \in Clients |-> "none"]
    /\ issued = <<>>
    /\ stock = [p \in DOMAIN Products |-> Products[p].stock]
    /\ sold = [p \in DOMAIN Products |-> 0]
    /\ patch = [c \in Clients |-> NoPatch]
    /\ deducted = <<>>
    /\ adjust = [c \in Clients |-> NoAdjust]

\* The invoice service: clients create and delete invoices concurrently.
Init ==
    /\ tieUp \in BOOLEAN
    /\ call = NoCall
    /\ ret = Pending
    /\ InitService

Next ==
    \/ \E c \in Clients, b \in BusinessIds, customerId \in ReqCustomerIds,
          items \in ReqItemLists : CreateStart(c, b, customerId, items)
    \/ \E c \in Clients : CreatePersist(c)
    \/ \E b \in BusinessIds, id \in Clients : DeleteInvoice(b, id)

Spec == Init /\ [][Next]_vars

\* The pure functions of gstCalculator.js, each applied to one input.
InitTax ==
    /\ tieUp \in BOOLEAN
    /\ call \in TotalsCalls \cup NumberCalls \cup GSTCalls
                \cup CreateTotalsCalls
    /\ ret = Pending
    /\ InitService

NextTax ==
    \/ CallCalculateInvoiceTotals
    \/ CallGenerateInvoiceNumber
    \/ CallCalculateGST
    \/ CallCreateTotals

SpecTax == InitTax /\ [][NextTax]_vars

\* Two drafts of business B1 as two POST / requests leave them
SeedInvoices ==
    {MakeDoc(1, B1, "c1", <<Item("p1", 1, Cents(100), NoRate),
                            Item("p2", 1, Cents(50), NoRate)>>, 0, 1),
     MakeDoc(2, B1, "c1", <<Item("p1", 2, Cents(100), NoRate)>>, 1, 2)}

InvoiceIds == {inv.id : inv \in SeedInvoices}

\* Statuses the status requests carry; "void" is none the schema knows
ReqStatuses == {"draft", "pending", "paid", "cancelled", "void"}

\* The life of created invoices: clients update statuses and update invoices
\* concurrently.
InitLife ==
    /\ tieUp \in BOOLEAN
    /\ call = NoCall
    /\ ret = Pending
    /\ invoices = SeedInvoices
    /\ pc = [c \in Clients |-> "idle"]
    /\ req = [c \in Clients |-> NoReq]
    /\ cnt = [c \in Clients |-> 0]
    /\ resp = [c \in Clients |-> NoResponse]
    /\ cause = [c \in Clients |-> "none"]
    /\ issued = <<>>
    /\ stock = [p \in DOMAIN Products |-> Products[p].stock]
    /\ sold = [p \in DOMAIN Products |-> 0]
    /\ patch = [c \in Clients |-> NoPatch]
    /\ deducted = <<>>
    /\ adjust = [c \in Clients |-> NoAdjust]

NextLife ==
    \/ \E c \in Updaters, b \in BusinessIds, id \in InvoiceIds,
          status \in ReqStatuses : PatchStart(c, b, id, status)
    \/ \E c \in Updaters : PatchDeduct(c)
    \/ \E c \in Updaters : PatchWrite(c)
    \/ \E c \in Updaters, b \in BusinessIds, id \in InvoiceIds,
          body \in PutBodies : PutInvoice(c, b, id, body)

SpecLife == InitLife /\ [][NextLife]_vars

\* The stock of the products: clients update statuses and update stocks
\* concurrently.
NextStock ==
    \/ \E c \in Updaters, b \in BusinessIds, id \in InvoiceIds,
          status \in ReqStatuses : PatchStart(c, b, id, status)
    \/ \E c \in Updaters : PatchDeduct(c)
    \/ \E c \in Updaters : PatchWrite(c)
    \/ \E c \in Updaters, b \in BusinessIds, p \in DOMAIN Products,
          type \in StockTypes, quantity \in StockQuantities :
             StockStart(c, b, p, type, quantity)
    \/ \E c \in Updaters : StockSave(c)

SpecStock == InitLife /\ [][NextStock]_vars

\* The report routes, each applied to one request over one state of the
\* collections.
InitReport ==
    /\ tieUp \in BOOLEAN
    /\ ret = Pending
    /\ \/ /\ call \in RangeCalls \cup PeriodCalls
          /\ invoices \in SUBSET InvoicePool
          /\ stock = [p \in DOMAIN Products |-> Products[p].stock]
       \/ /\ call \in PeriodCalls
          /\ invoices \in {S \cup {extra} : S \in SUBSET InvoicePool,
                                             extra \in {HalfRateInvoice,
                                                        TwoLineInvoice}}
          /\ stock = [p \in DOMAIN Products |-> Products[p].stock]
       \/ /\ call \in StockCalls
          /\ invoices = {}
          /\ stock \in [DOMAIN Products -> 0..MaxStock]
    /\ pc = [c \in Clients |-> "idle"]
    /\ req = [c \in Clients |-> NoReq]
    /\ cnt = [c \in Clients |-> 0]
    /\ resp = [c \in Clients |-> NoResponse]
    /\ cause = [c \in Clients |-> "none"]
    /\ issued = <<>>
    /\ sold = [p \in DOMAIN Products |-> 0]
    /\ patch = [c \in Clients |-> NoPatch]
    /\ deducted = <<>>
    /\ adjust = [c \in Clients |-> NoAdjust]

NextReport ==
    \/ CallSales
    \/ CallProfitLoss
    \/ CallProductSales
    \/ CallGSTR1
    \/ CallGSTR3B
    \/ CallStockSummary
    \/ CallPLStatement

SpecReport == InitReport /\ [][NextReport]_vars

(***************************************************************************)
(* Properties of the gstCalculator functions (checked under SpecTax)       *)
(***************************************************************************)
\* The LineItem domain: quantity >= 0, unitPrice >= 0, rate missing or in
\* [0, 100]
ValidLine(item) ==
    /\ item.quantity >= 0
    /\ item.unitPrice >= 0
    /\ item.gstRate = NoRate \/ (item.gstRate >= 0 /\ item.gstRate <= 100)

ValidLines(items) == \A i \in 1..Len(items) : ValidLine(items[i])

TotalsReturned == call.fn = "calculateInvoiceTotals" /\ ret # Pending

\* C1: for every list of valid line items and every pair of jurisdictions,
\* the returned 2-decimal fields satisfy
\* subtotal + cgst + sgst + igst = grandTotal.
C1_RoundedFieldsAddUp ==
    (TotalsReturned /\ ValidLines(call.items)) =>
        ret.subtotal + ret.cgst + ret.sgst + ret.igst = ret.grandTotal

\* C2: in the same-jurisdiction case the returned cgst + sgst equals the
\* returned totalGST, that is round(totalTax, 2), with no one-cent drift.
C2_DomesticPairSumsToTotal ==
    (TotalsReturned /\ ValidLines(call.items) /\ ret.isSameState) =>
        ret.cgst + ret.sgst = ret.totalGST

\* The unrounded total tax of a list of items, in units
RECURSIVE RawTotalTax(_)
RawTotalTax(items) ==
    IF items = <<>> THEN 0
    ELSE (items[1].quantity * items[1].unitPrice
            * (IF items[1].gstRate = NoRate THEN 0 ELSE items[1].gstRate))
            \div 100
         + RawTotalTax(Tail(items))

SameLetter(a, b) ==
    \/ a = b
    \/ \E k \in 1..Len(Upper) : {a, b} = {Upper[k], Lower[k]}

\* Both jurisdictions are given, non-empty and equal ignoring letter case
SameJurisdiction(cs, bs) ==
    /\ cs.defined /\ bs.defined
    /\ cs.chars # <<>> /\ bs.chars # <<>>
    /\ Len(cs.chars) = Len(bs.chars)
    /\ \A i \in 1..Len(cs.chars) : SameLetter(cs.chars[i], bs.chars[i])

\* C4: the domestic split is applied if and only if both jurisdictions are
\* non-empty and equal ignoring case; otherwise the whole tax goes to igst.
C4_DomesticIffSameJurisdiction ==
    TotalsReturned =>
        /\ ret.isSameState
              <=> SameJurisdiction(call.customerState, call.businessState)
        /\ SameJurisdiction(call.customerState, call.businessState) =>
              /\ ret.igst = 0
              /\ ret.cgst = toFixed2(RawTotalTax(call.items) \div 2)
              /\ ret.sgst = ret.cgst
        /\ ~SameJurisdiction(call.customerState, call.businessState) =>
              /\ ret.cgst = 0
              /\ ret.sgst = 0
              /\ ret.igst = toFixed2(RawTotalTax(call.items))

\* C4 witness: jurisdictions that differ only in case got the domestic split
C4_Witness ==
    /\ TotalsReturned
    /\ call.customerState.chars # call.businessState.chars
    /\ ret.isSameState
    /\ ret.cgst > 0

\* C5: calculateGST fails with InvalidInput when lineTotal < 0 or the rate is
\* outside [0, 100], and calculateInvoiceTotals returns InvalidInput for a
\* line with negative quantity, negative price or out-of-range rate.
C5_InvalidInputRejected ==
    /\ (call.fn = "calculateGST" /\ ret # Pending
          /\ (call.itemTotal < 0 \/ call.gstRate < 0 \/ call.gstRate > 100))
        => ret.kind = "InvalidInput"
    /\ (TotalsReturned /\ ~ValidLines(call.items))
        => ret.kind = "InvalidInput"

\* The sequence part of an invoice number: what follows its last "-"
SeqPart(number) ==
    LET dash == CHOOSE i \in 1..Len(number) :
                    /\ number[i] = "-"
                    /\ \A j \in (i + 1)..Len(number) : number[j] # "-"
    IN  SubSeq(number, dash + 1, Len(number))

SeqNumber(number) == ParseDecimal(SeqPart(number))

\* C6: generateInvoiceNumber(businessId, n) is "INV-" + businessId + "-" +
\* the decimal form of n + 1, zero-padded to at least 6 digits and never
\* truncated; a larger n gives a numerically larger sequence part.
C6_InvoiceNumberFormat ==
    (call.fn = "generateInvoiceNumber" /\ ret # Pending) =>
        LET prefix == <<"I","N","V","-">> \o call.userId \o <<"-">>
            seq    == SubSeq(ret.value, Len(prefix) + 1, Len(ret.value))
        IN  /\ Len(ret.value) > Len(prefix)
            /\ SubSeq(ret.value, 1, Len(prefix)) = prefix
            /\ \A i \in 1..Len(seq) : IsDigit(seq[i])
            /\ ParseDecimal(seq) = call.invoiceCount + 1
            /\ Len(seq) >= 6
            /\ Len(seq) > 6 => seq[1] # "0"
            /\ \A m \in CountSamples :
                  m > call.invoiceCount =>
                      SeqNumber(generateInvoiceNumber(call.userId, m))
                          > SeqNumber(ret.value)

\* C6 witness: a number past 999999, returned with all seven digits
C6_Witness ==
    /\ call.fn = "generateInvoiceNumber"
    /\ ret # Pending
    /\ call.invoiceCount + 1 > 999999
    /\ Len(SeqPart(ret.value)) = 7

(***************************************************************************)
(* Properties of the invoice routes (checked under Spec)                   *)
(***************************************************************************)
\* C7: within one business, every newly issued invoice number has a sequence
\* part strictly greater than that of every number issued earlier.
C7_NumbersStrictlyIncreasing ==
    \A i, j \in 1..Len(issued) :
        (i < j /\ issued[i].businessId = issued[j].businessId) =>
            SeqNumber(issued[i].invoiceNumber)
                < SeqNumber(issued[j].invoiceNumber)

\* C8: no reachable state holds two invoices with the same invoiceNumber.
C8_AtMostOneInvoicePerNumber ==
    \A i, j \in invoices : i.invoiceNumber = j.invoiceNumber => i = j

\* C8 witness: a create lost the race for a number that another invoice holds
C8_Witness ==
    \E c \in Updaters, inv \in invoices :
        /\ cause[c] = "duplicate"
        /\ inv.id # c
        /\ inv.invoiceNumber = generateInvoiceNumber(inv.businessId, cnt[c])

\* C9: a create that collides with an existing invoiceNumber answers with an
\* error the caller can tell from every other creation failure, and persists
\* no invoice.
C9_DuplicateDistinguishable ==
    \A c \in Clients :
        cause[c] = "duplicate" =>
            /\ \A inv \in invoices : inv.id # c
            /\ \A d \in Clients :
                  cause[d] \in {"missing", "notfound", "validation"} =>
                      resp[d] # resp[c]

\* C10: a valid create request that meets a uniqueness conflict is retried
\* with a freshly read count and ends with its invoice persisted (201), not
\* with a failure.
C10_ValidCreatePersists ==
    \A c \in Clients :
        (pc[c] = "done" /\ cause[c] \notin {"missing", "notfound", "validation"})
            => resp[c].status = 201

IsWholeCents(x) == x % UnitsPerCent = 0

\* C20: every monetary field returned by calculateInvoiceTotals, each line's
\* itemTotal and itemGST included, has at most 2 decimal places.
C20_OutputsTwoDecimals ==
    (TotalsReturned /\ ValidLines(call.items)) =>
        /\ \A f \in {"subtotal", "cgst", "sgst", "igst", "totalGST",
                     "grandTotal"} : IsWholeCents(ret[f])
        /\ \A i \in 1..Len(ret.items) :
              /\ IsWholeCents(ret.items[i].itemTotal)
              /\ IsWholeCents(ret.items[i].itemGST)

(***************************************************************************)
(* Properties of the invoice life cycle (checked under SpecLife)           *)
(***************************************************************************)
\* The transitions the life cycle allows
LifecycleEdges ==
    {<<"draft", "pending">>, <<"draft", "cancelled">>,
     <<"pending", "paid">>, <<"pending", "overdue">>,
     <<"pending", "cancelled">>}

\* C11: an invoice's status only ever moves along draft -> pending or
\* cancelled, pending -> paid, overdue or cancelled; paid, overdue and
\* cancelled are terminal, whatever requests are sent.
C11_OnlyLifecycleEdges ==
    [][\A inv \in invoices : \A upd \in invoices' :
          (upd.id = inv.id /\ upd.status # inv.status) =>
              <<inv.status, upd.status>> \in LifecycleEdges]_vars

\* C12: once an invoice is created, no operation changes any of its fields
\* other than status.
C12_OnlyStatusChanges ==
    [][\A inv \in invoices : \A upd \in invoices' :
          upd.id = inv.id =>
              \A f \in DOMAIN inv \ {"status"} : upd[f] = inv[f]]_vars

\* Every status-update handler has run to its end
Quiescent == \A c \in Updaters : pc[c] \in {"idle", "done"}

\* C13: stock is deducted on finalization by atomic decrements: whatever the
\* interleaving of concurrent finalizations, once they have all ended each
\* product's stock is its initial stock minus the quantities of the
\* finalized invoices.
C13_StockIsInitialMinusFinalized ==
    Quiescent =>
        \A p \in DOMAIN Products : stock[p] = Products[p].stock - sold[p]

\* Both drafts were finalized, three units of p1 between them.
C13_Witness ==
    /\ Quiescent
    /\ \A inv \in invoices : inv.status \in {"pending", "paid"}
    /\ \A c \in Updaters : cause[c] = "status"
    /\ sold["p1"] = 3
    /\ stock["p1"] = Products["p1"].stock - 3

\* Two finalizations are in the middle of their deductions at once.
C13_Interleaved ==
    \E c, d \in Updaters : c # d /\ pc[c] = "deduct" /\ pc[d] = "deduct"

(***************************************************************************)
(* Properties of the report routes (checked under SpecReport)              *)
(***************************************************************************)
ReportReturned == ret # Pending /\ ret.status = 200

\* The closed range [start, end] a report request names: the instants its
\* two date strings denote, or the bounds its route derives from the period
RangeStart ==
    IF call.fn \in RangeReports THEN ParseDecimal(call.startDate.chars)
    ELSE PeriodStart(call.period.chars).t

RangeEnd ==
    IF call.fn \in RangeReports THEN ParseDecimal(call.endDate.chars)
    ELSE PeriodEnd(call.period.chars).t

\* The invoices that must contribute: the caller's own, dated within the
\* range, not cancelled
Contributing ==
    {inv \in invoices : /\ inv.businessId = call.businessId
                        /\ RangeStart <= inv.date
                        /\ inv.date <= RangeEnd
                        /\ ~(inv.status = "cancelled")}

\* What one invoice contributes to the totals of the reports
Contribution(inv) ==
    [id         |-> inv.id,
     grandTotal |-> inv.grandTotal,
     totalGST   |-> inv.totalGST,
     subtotal   |-> inv.subtotal,
     cgst       |-> inv.cgst,
     sgst       |-> inv.sgst,
     igst       |-> inv.igst,
     lineTotal  |-> SumField(inv.items, "itemTotal"),
     quantity   |-> SumField(inv.items, "quantity")]

RECURSIVE SetSum(_, _)
SetSum(S, f) ==
    IF S = {} THEN 0
    ELSE LET x == CHOOSE x \in S : TRUE
         IN  x[f] + SetSum(S \ {x}, f)

Expected(f) == SetSum({Contribution(inv) : inv \in Contributing}, f)

\* The total of one field over the buckets of a rate map
RECURSIVE BucketTotal(_, _, _)
BucketTotal(buckets, rates, f) ==
    IF rates = {} THEN 0
    ELSE LET r == CHOOSE r \in rates : TRUE
         IN  buckets[r][f] + BucketTotal(buckets, rates \ {r}, f)

\* C14: every date-ranged report aggregates exactly the invoices of the
\* caller's business whose date lies in the closed range [start, end] and
\* whose status is not cancelled: its totals are those of exactly that set.
C14_ReportsAggregateExactlyTheRange ==
    ReportReturned =>
        /\ call.fn = "sales" =>
              /\ ret.invoiceCount = Cardinality(Contributing)
              /\ ret.totalSales = Expected("grandTotal")
              /\ ret.totalGST = Expected("totalGST")
        /\ call.fn = "profit-loss" => ret.revenue = Expected("grandTotal")
        /\ call.fn = "product-sales" =>
              /\ SumField(ret.products, "quantity") = Expected("quantity")
              /\ SumField(ret.products, "totalSales") = Expected("lineTotal")
        /\ call.fn = "gstr-1" =>
              BucketTotal(ret.byGSTRate, DOMAIN ret.byGSTRate, "taxableValue")
                  = Expected("lineTotal")
        /\ call.fn = "gstr-3b" =>
              /\ ret.totalTaxableValue = Expected("subtotal")
              /\ ret.totalCGST = Expected("cgst")
              /\ ret.totalSGST = Expected("sgst")
              /\ ret.totalIGST = Expected("igst")
        /\ call.fn = "pl-statement" =>
              /\ ret.totalRevenue = Expected("lineTotal")
              /\ SumField(ret.plStatement, "totalQuantitySold")
                    = Expected("quantity")

\* A report over a collection holding invoices on both bounds of the range
\* together with a cancelled, an other-business and a later invoice.
C14_Witness ==
    /\ ReportReturned
    /\ call.fn = "sales"
    /\ call.businessId = B1
    /\ invoices = InvoicePool
    /\ RangeStart = Month1
    /\ RangeEnd = Month1 + InstantsPerMonth - 2
    /\ ret.invoiceCount = 2
    /\ \E inv \in invoices : inv.date = RangeStart /\ inv \in Contributing
    /\ \E inv \in invoices : inv.date = RangeEnd /\ inv \in Contributing

\* The range of a request is missing, is no date, or has start after end
RangeMissing ==
    IF call.fn \in RangeReports
    THEN ~Truthy(call.startDate) \/ ~Truthy(call.endDate)
    ELSE ~Truthy(call.period)

RangeUnparseable ==
    /\ ~RangeMissing
    /\ IF call.fn \in RangeReports
       THEN ~AllDigits(call.startDate.chars) \/ ~AllDigits(call.endDate.chars)
       ELSE ~PeriodStart(call.period.chars).valid

RangeInverted ==
    /\ ~RangeMissing
    /\ ~RangeUnparseable
    /\ RangeStart > RangeEnd

\* C15: every report that takes a date range answers a missing, unparseable
\* or inverted range with a caller error (a 400), never with a result.
C15_InvalidRangeIsCallerError ==
    (/\ ret # Pending
     /\ call.fn \in RangeReports \cup PeriodReports
     /\ RangeMissing \/ RangeUnparseable \/ RangeInverted)
        => ret.status = 400

\* The status stockValuation is to give a product
ExpectedStockStatus(row) ==
    IF row.stock = 0 THEN "Out of Stock"
    ELSE IF row.stock <= row.minStock THEN "Low Stock"
    ELSE "In Stock"

\* C16: the stock summary gives each product one status: Out of Stock when
\* its stock is 0 (even though stock <= minStock holds too), Low Stock when
\* 0 < stock <= minStock, In Stock otherwise.
C16_OutOfStockTakesPrecedence ==
    (ReportReturned /\ call.fn = "stock-summary") =>
        \A i \in 1..Len(ret.stockSummary) :
            ret.stockSummary[i].stockStatus
                = ExpectedStockStatus(ret.stockSummary[i])

\* A margin, in hundredths of a percent, is exactly profit / revenue x 100
ExactMargin(margin, profit, revenue) ==
    IF revenue > 0 THEN margin * revenue = profit * 100 * 100
    ELSE margin = 0

\* A margin is profit / revenue x 100 rounded to two decimals
RoundedMargin(margin, profit, revenue) ==
    IF revenue > 0
    THEN 2 * Abs(margin * revenue - profit * 100 * 100) <= revenue
    ELSE margin = 0

\* C17 as stated: profitMargin equals profit / revenue x 100 when revenue > 0
\* and 0 when revenue is 0, in profitAndLoss and in productProfitAndLoss
\* (each product and the overall summary).
C17_MarginIsExactRatio ==
    /\ (ReportReturned /\ call.fn = "profit-loss") =>
          ExactMargin(ret.profitMargin, ret.profit, ret.revenue)
    /\ (ReportReturned /\ call.fn = "pl-statement") =>
          /\ ExactMargin(ret.overallProfitMargin, ret.totalProfit,
                         ret.totalRevenue)
          /\ \A i \in 1..Len(ret.plStatement) :
                ExactMargin(ret.plStatement[i].profitMargin,
                            ret.plStatement[i].totalProfit,
                            ret.plStatement[i].totalRevenue)

\* C17, amended: profitMargin equals profit / revenue x 100 rounded to two
\* decimals when revenue > 0 and 0 when revenue is 0; it is always a number.
C17_MarginIsRoundedRatio ==
    /\ (ReportReturned /\ call.fn = "profit-loss") =>
          /\ ret.profitMargin \in Int
          /\ RoundedMargin(ret.profitMargin, ret.profit, ret.revenue)
    /\ (ReportReturned /\ call.fn = "pl-statement") =>
          /\ ret.overallProfitMargin \in Int
          /\ RoundedMargin(ret.overallProfitMargin, ret.totalProfit,
                           ret.totalRevenue)
          /\ \A i \in 1..Len(ret.plStatement) :
                RoundedMargin(ret.plStatement[i].profitMargin,
                              ret.plStatement[i].totalProfit,
                              ret.plStatement[i].totalRevenue)

\* A profit-and-loss report whose margin had to be rounded.
C17_Witness ==
    /\ ReportReturned
    /\ call.fn = "profit-loss"
    /\ ret.revenue > 0
    /\ ~ExactMargin(ret.profitMargin, ret.profit, ret.revenue)
    /\ RoundedMargin(ret.profitMargin, ret.profit, ret.revenue)

\* A report over no revenue: the margin is 0.
C17_ZeroRevenue ==
    /\ ReportReturned
    /\ call.fn = "profit-loss"
    /\ ret.revenue = 0
    /\ ret.profitMargin = 0

\* The cost the claim gives an invoice line: quantity times the purchase
\* price of its product, nothing when the product cannot be resolved
RECURSIVE ExpectedCost(_)
ExpectedCost(items) ==
    IF items = <<>> THEN 0
    ELSE (IF Head(items).productId \in DOMAIN Products
          THEN Head(items).quantity
               * Products[Head(items).productId].purchasePrice
          ELSE 0)
         + ExpectedCost(Tail(items))

ExpectedCosts ==
    SetSum({[id |-> inv.id, cost |-> ExpectedCost(inv.items)] :
               inv \in Contributing}, "cost")

\* The request names a valid range
RangeValid == ~RangeMissing /\ ~RangeUnparseable

\* C18: in profitAndLoss the cost is the sum over every line of the in-range
\* invoices of quantity x the looked-up purchase price; a line whose product
\* cannot be resolved adds nothing, and the report still completes with the
\* contributions of all other lines.
C18_DanglingProductCostsNothing ==
    (/\ ret # Pending
     /\ call.fn \in {"profit-loss", "pl-statement"}
     /\ RangeValid) =>
        /\ ret.status = 200
        /\ call.fn = "profit-loss" =>
              /\ ret.costs = ExpectedCosts
              /\ ret.revenue = Expected("grandTotal")
        /\ call.fn = "pl-statement" => ret.totalCost = ExpectedCosts

\* A profit-and-loss report over an invoice with one line of a product that
\* no longer exists and one of a product that does.
C18_Witness ==
    /\ ReportReturned
    /\ call.fn = "profit-loss"
    /\ \E inv \in Contributing :
          /\ \E i \in 1..Len(inv.items) :
                inv.items[i].productId \notin DOMAIN Products
          /\ \E i \in 1..Len(inv.items) :
                inv.items[i].productId \in DOMAIN Products
    /\ ret.costs > 0

\* Every bucket of a rate map holds zeros
ZeroBuckets(buckets) ==
    \A rate \in DOMAIN buckets :
        /\ buckets[rate].taxableValue = 0
        /\ buckets[rate].cgst = 0
        /\ buckets[rate].sgst = 0
        /\ buckets[rate].igst = 0

\* What every report but GSTR-1 is to return over nothing: zero totals and
\* counts, empty lists
EmptyReport ==
    /\ ret.status = 200
    /\ call.fn = "sales" =>
          /\ ret.totalSales = 0 /\ ret.totalGST = 0 /\ ret.invoiceCount = 0
          /\ ret.dailySales = <<>>
    /\ call.fn = "profit-loss" =>
          /\ ret.revenue = 0 /\ ret.costs = 0 /\ ret.profit = 0
          /\ ret.profitMargin = 0
    /\ call.fn = "product-sales" => ret.products = <<>>
    /\ call.fn = "gstr-3b" =>
          /\ ret.totalTaxableValue = 0 /\ ret.totalCGST = 0
          /\ ret.totalSGST = 0 /\ ret.totalIGST = 0
    /\ call.fn = "pl-statement" =>
          /\ ret.plStatement = <<>>
          /\ ret.totalRevenue = 0 /\ ret.totalCost = 0 /\ ret.totalProfit = 0
          /\ ret.overallProfitMargin = 0
    /\ call.fn = "stock-summary" =>
          /\ ret.stockSummary = <<>>
          /\ ret.totalProducts = 0
          /\ ret.totalStockValue = 0 /\ ret.totalPurchaseValue = 0
          /\ ret.lowStockCount = 0 /\ ret.outOfStockCount = 0
          /\ ret.inStockCount = 0

\* A report has run over an empty invoice collection with a valid range, or
\* the stock summary over a business without products
RanOverNothing ==
    /\ ret # Pending
    /\ IF call.fn = "stock-summary" THEN ProductsOf(call.businessId) = <<>>
       ELSE invoices = {} /\ RangeValid

\* C19 as stated: every aggregation over an empty invoice collection returns
\* zero totals and counts and empty breakdown lists, and stockValuation over
\* no products returns zero totals; none returns an error.
C19_EmptyGivesZeroAndEmpty ==
    RanOverNothing =>
        /\ EmptyReport
        /\ call.fn = "gstr-1" => DOMAIN ret.byGSTRate = {}

\* C19, amended: the same, except that GSTR-1 returns its five standard rate
\* buckets (0, 5, 12, 18, 28), every field of each zero.
C19_EmptyGivesZeroAndStandardBuckets ==
    RanOverNothing =>
        /\ EmptyReport
        /\ call.fn = "gstr-1" =>
              /\ DOMAIN ret.byGSTRate = StandardRates
              /\ ZeroBuckets(ret.byGSTRate)

\* GSTR-1 has run over an empty collection.
C19_Witness ==
    /\ RanOverNothing
    /\ call.fn = "gstr-1"
    /\ ret.status = 200
    /\ ZeroBuckets(ret.byGSTRate)

\* The sales report has run over an empty collection.
C19_EmptySales ==
    /\ RanOverNothing
    /\ call.fn = "sales"
    /\ ret.status = 200
    /\ ret.invoiceCount = 0

(***************************************************************************)
(* Further properties of the gstCalculator functions (SpecTax)             *)
(***************************************************************************)
\* The tax of the lines that carry a rate, and the value of all lines
RECURSIVE RatedTax(_)
RatedTax(items) ==
    IF items = <<>> THEN 0
    ELSE (IF Head(items).gstRate = NoRate THEN 0
          ELSE (Head(items).quantity * Head(items).unitPrice
                * Head(items).gstRate) \div 100)
         + RatedTax(Tail(items))

RECURSIVE LineValue(_)
LineValue(items) ==
    IF items = <<>> THEN 0
    ELSE Head(items).quantity * Head(items).unitPrice + LineValue(Tail(items))

\* C21: an item with no tax rate is treated as rate 0: it adds
\* quantity x unitPrice to subtotal, nothing to totalTax, and raises no
\* error; on invoice creation a line whose product cannot be found and
\* which carries no rate is likewise taxed at 0.
C21_MissingRateIsZero ==
    /\ (TotalsReturned /\ ValidLines(call.items)) =>
          /\ ret.kind = "totals"
          /\ ret.subtotal = toFixed2(LineValue(call.items))
          /\ ret.totalGST = toFixed2(RatedTax(call.items))
          /\ \A i \in 1..Len(call.items) :
                call.items[i].gstRate = NoRate =>
                    /\ ret.items[i].itemGST = 0
                    /\ ret.items[i].itemTotal
                          = call.items[i].quantity * call.items[i].unitPrice
    /\ (call.fn = "createTotals" /\ ret # Pending) =>
          /\ ret.kind = "totals"
          /\ \A i \in 1..Len(call.items) :
                (/\ call.items[i].productId \notin DOMAIN Products
                 /\ call.items[i].gstRate = NoRate) =>
                    /\ ret.items[i].gstRate = 0
                    /\ ret.items[i].itemGST = 0
                    /\ ret.items[i].itemTotal > 0

\* Totals of a rated line and a line without a rate: only the first is taxed.
C21_Witness ==
    /\ TotalsReturned
    /\ Len(call.items) = 2
    /\ call.items[1].gstRate = 18
    /\ call.items[2].gstRate = NoRate
    /\ ret.items[2].itemTotal > 0
    /\ ret.items[2].itemGST = 0
    /\ ret.totalGST = toFixed2(ret.items[1].itemGST)
    /\ ret.totalGST > 0

\* Creation totals for a line of an unknown product without a rate.
C21_CreateWitness ==
    /\ call.fn = "createTotals"
    /\ ret # Pending
    /\ \E i \in 1..Len(call.items) :
          /\ call.items[i].productId \notin DOMAIN Products
          /\ call.items[i].gstRate = NoRate
          /\ ret.items[i].gstRate = 0

(***************************************************************************)
(* Further properties of the report routes (SpecReport)                    *)
(***************************************************************************)
\* The contributing invoices dated on one calendar day
OnDay(day) == {inv \in Contributing : DayOf(inv.date) = day}

ContributingLines ==
    UNION {{[id        |-> inv.id,
             line      |-> i,
             halves    |-> 2 * (IF inv.items[i].gstRate = NoRate THEN 0
                                ELSE inv.items[i].gstRate)
                           + (IF "rateHalf" \in DOMAIN inv.items[i]
                              THEN inv.items[i].rateHalf ELSE 0),
             itemTotal |-> inv.items[i].itemTotal] : i \in 1..Len(inv.items)}
           : inv \in Contributing}

\* The nearest whole percent of a rate given in half percents, a tie going up
NearestWholePercent(halves) == (halves + 1) \div 2

LinesAtRate(rate) ==
    {l \in ContributingLines : NearestWholePercent(l.halves) = rate}

\* C23: the GSTR-1 report puts every line in the bucket of its rate rounded to
\* the nearest whole percent (a tie goes up, a missing rate is 0); a bucket's
\* taxableValue is the sum of the line totals of exactly its lines, and the
\* taxableValues add up to the line totals of all invoices in the range.
C23_LinesBucketedByRoundedRate ==
    (ReportReturned /\ call.fn = "gstr-1") =>
        /\ \A l \in ContributingLines :
              NearestWholePercent(l.halves) \in DOMAIN ret.byGSTRate
        /\ \A rate \in DOMAIN ret.byGSTRate :
              ret.byGSTRate[rate].taxableValue
                  = SetSum(LinesAtRate(rate), "itemTotal")
        /\ BucketTotal(ret.byGSTRate, DOMAIN ret.byGSTRate, "taxableValue")
              = SetSum(ContributingLines, "itemTotal")

\* A report over a line taxed at 2.5%, which lands in bucket 3, and a bucket
\* that holds two lines.
C23_Witness ==
    /\ ReportReturned
    /\ call.fn = "gstr-1"
    /\ \E l \in ContributingLines : l.halves = 5
    /\ 3 \in DOMAIN ret.byGSTRate
    /\ ret.byGSTRate[3].taxableValue = Cents(50)
    /\ Cardinality(LinesAtRate(18)) >= 2

\* The contributing invoices with a line in the bucket of a rate
Touching(rate) ==
    {inv \in Contributing :
        \E l \in ContributingLines :
            l.id = inv.id /\ NearestWholePercent(l.halves) = rate}

\* C24: the GSTR-1 report adds the cgst, sgst and igst of each invoice in the
\* range once to every rate bucket the invoice has a line in, however many
\* lines: a bucket's taxes are the sums over the invoices touching it.
C24_InvoiceTaxOncePerBucket ==
    (ReportReturned /\ call.fn = "gstr-1") =>
        \A rate \in DOMAIN ret.byGSTRate :
            LET touching == {Contribution(inv) : inv \in Touching(rate)}
            IN  /\ ret.byGSTRate[rate].cgst = SetSum(touching, "cgst")
                /\ ret.byGSTRate[rate].sgst = SetSum(touching, "sgst")
                /\ ret.byGSTRate[rate].igst = SetSum(touching, "igst")

\* The report over the one invoice with two lines at 18%: bucket 18 holds
\* twice the invoice's taxes.
C24_TaxAddedPerLine ==
    /\ ReportReturned
    /\ call.fn = "gstr-1"
    /\ Contributing = {TwoLineInvoice}
    /\ ret.byGSTRate[18].cgst = 2 * TwoLineInvoice.cgst
    /\ ret.byGSTRate[18].sgst = 2 * TwoLineInvoice.sgst
    /\ ret.byGSTRate[18].igst = 2 * TwoLineInvoice.igst
    /\ TwoLineInvoice.cgst + TwoLineInvoice.sgst + TwoLineInvoice.igst > 0

C26_DeductedAtMostOnce ==
    \A id \in DOMAIN deducted : deducted[id] <= 1

\* Two status updates of draft invoice 1 ran at once: both read the draft,
\* both ran the deduction loop, and p2 stands at two less than it started.
C26_DeductedTwice ==
    /\ Quiescent
    /\ CountOf(deducted, 1) = 2
    /\ stock["p1"] = Products["p1"].stock - 2
    /\ stock["p2"] = Products["p2"].stock - 2

\* The totals calculateInvoiceTotals gives for the persisted lines of an
\* invoice and the states of its customer and its business
TotalsOf(inv) ==
    calculateInvoiceTotals(inv.items, Customers[inv.customerId].state,
                           BusinessState(inv.businessId))

\* C27: after any creates and updates, the subtotal, cgst, sgst, igst,
\* totalGST and grandTotal of every persisted invoice are those that
\* calculateInvoiceTotals gives for its persisted lines and the states of its
\* customer and business; an update replacing the items, with a customerId or
\* without, leaves no stale and no caller-supplied total.
C27_TotalsMatchPersistedItems ==
    \A inv \in invoices :
        \A f \in TotalsFields \ {"items"} : inv[f] = TotalsOf(inv)[f]

\* Invoice 1 after PUT /1 with three units of p1 and a grand total of one
\* cent but no customerId: the lines are the new ones, the grand total is the
\* caller's, and the subtotal is still that of the old lines.
C27_StaleAndSuppliedTotals ==
    \E inv \in invoices :
        /\ inv.id = 1
        /\ Len(inv.items) = 1
        /\ inv.items[1].quantity = 3
        /\ inv.grandTotal = Cents(1)
        /\ inv.subtotal = Cents(150)
        /\ TotalsOf(inv).subtotal = Cents(300)

(***************************************************************************)
(* Properties of the stock (SpecStock)                                     *)
(***************************************************************************)

\* C28: the stock of a product is never negative: no finalizations and manual
\* stock updates (add, subtract, set) take it below 0, the minimum of the
\* product schema.
C28_StockNeverNegative ==
    \A p \in DOMAIN stock : stock[p] >= 0

\* One unit of p2 was taken off by hand, leaving none; then invoice 1, the
\* only request on it, was finalized and p2 stands at -1.
C28_NegativeAfterOneFinalization ==
    /\ Quiescent
    /\ \E c \in Updaters : /\ cause[c] = "stock"
                          /\ adjust[c].productId = "p2"
                          /\ adjust[c].newQuantity = 0
    /\ CountOf(deducted, 1) = 1
    /\ stock["p2"] = -1

\* The manual stock updates that were carried out, each with the change it
\* set out to make to its product
ManualChanges ==
    {[client    |-> c,
      productId |-> adjust[c].productId,
      type      |-> adjust[c].type,
      change    |-> adjust[c].newQuantity - adjust[c].read]
        : c \in {d \in Updaters : cause[d] = "stock"}}

\* C29: a manual stock update that adds or subtracts, running at the same
\* time as the finalization of an invoice with the same product, loses
\* neither change: once both have ended the stock is the initial stock with
\* the manual change made and the finalized quantities deducted.
C29_NeitherChangeLost ==
    (/\ Quiescent
     /\ Cardinality(ManualChanges) = 1
     /\ \A m \in ManualChanges : m.type \in {"add", "subtract"}) =>
        \A p \in DOMAIN Products :
            stock[p] = Products[p].stock - sold[p]
                       + SetSum({m \in ManualChanges : m.productId = p},
                                "change")

\* One unit was added to p1 by hand while invoice 2 was finalized: the update
\* read 5, the finalization took 2 off, the update then wrote 6.
C29_DeductionOverwritten ==
    /\ Quiescent
    /\ \E c \in Updaters : /\ cause[c] = "stock"
                          /\ adjust[c].productId = "p1"
                          /\ adjust[c].type = "add"
                          /\ adjust[c].read = 5
                          /\ adjust[c].newQuantity = 6
    /\ sold["p1"] = 2
    /\ stock["p1"] = 6

(***************************************************************************)
(* Tenant isolation (Spec)                                                 *)
(***************************************************************************)

\* C30: no request of an admin of one business changes a record of another
\* business or produces an invoice that references a customer of another
\* business: every invoice references a customer of its own business, and the
\* step that ends a create request of business A leaves the invoices and the
\* product stock of every other business as they were.
C30_TenantIsolation ==
    [][/\ \A inv \in invoices' :
             Customers[inv.customerId].businessId = inv.businessId
       /\ \A c \in Clients :
             (pc[c] = "counted" /\ pc'[c] = "done") =>
                /\ \A inv \in invoices :
                      inv.businessId # req[c].businessId => inv \in invoices'
                /\ \A inv \in invoices' \ invoices :
                      inv.businessId = req[c].businessId
                /\ \A p \in DOMAIN Products :
                      Products[p].businessId # req[c].businessId =>
                          stock'[p] = stock[p]]_vars

\* An invoice of business b2 that references customer c1 of business b1 and
\* has a line of product p1 of business b1.
C30_ForeignCustomer ==
    \E inv \in invoices :
        /\ inv.businessId = B2
        /\ Customers[inv.customerId].businessId = B1
        /\ Products[inv.items[1].productId].businessId = B1

====
